---- MODULE Spec2Model ----
(***************************************************************************)
(* Model of the audio-to-notes backend (src/backend_api.py): the HTTP      *)
(* handlers, the in-memory processing_status map and the four storage      *)
(* directories (uploads, transcripts, summaries, notes).                   *)
(*                                                                         *)
(* Python values are tagged tuples, so that documents of different shapes  *)
(* can be held in one variable: <<"str", s>>, <<"int", n>>,                *)
(* <<"float", hundredths>>, <<"bool", b>>, <<"null">>, <<"list", seq>> and *)
(* <<"dict", pairs>> where pairs is the insertion-ordered sequence of      *)
(* <<key, value>> members of a Python dict.                                *)
(***************************************************************************)
EXTENDS Integers, Sequences, FiniteSets, TLC

\* ---------------------------------------------------------------- bounds
\* number of distinct identifiers uuid4 can hand out in one run
MaxIds == 5
\* number of uploads accepted in one run
MaxUploads == 2
\* number of threads of the server's thread pool that run handlers
MaxThreads == 2

Ids == 1..MaxIds

\* ------------------------------------------------------- Python values
Str(s) == <<"str", s>>
Num(n) == <<"int", n>>
Float(h) == <<"float", h>>
Bool(b) == <<"bool", b>>
None == <<"null">>
List(items) == <<"list", items>>
Dict(pairs) == <<"dict", pairs>>

IsDict(v) == v[1] = "dict"
IsList(v) == v[1] = "list"

\* keys of a dict, in insertion order
DictKeys(d) == [i \in 1..Len(d[2]) |-> d[2][i][1]]
DictHas(d, k) == \E i \in 1..Len(d[2]) : d[2][i][1] = k
\* d[k]
DictGet(d, k) == d[2][CHOOSE i \in 1..Len(d[2]) : d[2][i][1] = k][2]
\* d.get(k, default)
DictGetDefault(d, k, default) == IF DictHas(d, k) THEN DictGet(d, k) ELSE default
\* the assignment building a new dict of the one key
DictSet_replace(d, k, v) == Dict(<< <<k, v>> >>)

\* d[k] = v : replaces the value of an existing key in place, appends a new key
DictSet(d, k, v) ==
    IF DictHas(d, k)
    THEN Dict([i \in 1..Len(d[2]) |-> IF d[2][i][1] = k THEN <<k, v>> ELSE d[2][i]])
    ELSE Dict(Append(d[2], <<k, v>>))

\* a test for None only
bool_is_not_none(v) == v # None

\* bool(x) for the values the handlers apply it to (None and str)
bool(v) == IF v = None THEN FALSE ELSE v[2] # ""

\* len(x) of a str or a list
len(v) == Len(v[2])

\* ------------------------------------------------------------ json
\* json.dump: the document as the sequence of JSON tokens written to the file.
\* Objects are "{" key value ... "}", arrays "[" value ... "]"; scalars are
\* one token each.  Whitespace (indent=2) and the separators carry no
\* information and are left out.
RECURSIVE json_dump(_)
RECURSIVE DumpMembers(_)
RECURSIVE DumpItems(_)
\* null written as the empty string
json_dump_null_as_empty(v) ==
    IF IsDict(v) THEN <<(<<"{">>)>> \o DumpMembers(v[2]) \o <<(<<"}">>)>>
    ELSE IF IsList(v) THEN <<(<<"[">>)>> \o DumpItems(v[2]) \o <<(<<"]">>)>>
    ELSE IF v = None THEN <<Str("")>>
    ELSE <<v>>

json_dump(v) ==
    IF IsDict(v) THEN <<(<<"{">>)>> \o DumpMembers(v[2]) \o <<(<<"}">>)>>
    ELSE IF IsList(v) THEN <<(<<"[">>)>> \o DumpItems(v[2]) \o <<(<<"]">>)>>
    ELSE <<v>>
DumpMembers(pairs) ==
    IF pairs = <<>> THEN <<>>
    ELSE <<(<<"key", Head(pairs)[1]>>)>> \o json_dump(Head(pairs)[2]) \o DumpMembers(Tail(pairs))
DumpItems(items) ==
    IF items = <<>> THEN <<>>
    ELSE json_dump(Head(items)) \o DumpItems(Tail(items))

\* json.load: recursive descent over the token sequence.  Parse*(toks, i, ..)
\* returns <<value, index of the first token after the value>>.
RECURSIVE ParseValue(_, _)
RECURSIVE ParseMembers(_, _, _)
RECURSIVE ParseItems(_, _, _)
ParseValue(toks, i) ==
    IF toks[i] = <<"{">> THEN ParseMembers(toks, i + 1, <<>>)
    ELSE IF toks[i] = <<"[">> THEN ParseItems(toks, i + 1, <<>>)
    ELSE <<toks[i], i + 1>>
ParseMembers(toks, i, acc) ==
    IF toks[i] = <<"}">> THEN <<Dict(acc), i + 1>>
    ELSE LET r == ParseValue(toks, i + 1)
         IN ParseMembers(toks, r[2], Append(acc, <<toks[i][2], r[1]>>))
ParseItems(toks, i, acc) ==
    IF toks[i] = <<"]">> THEN <<List(acc), i + 1>>
    ELSE LET r == ParseValue(toks, i)
         IN ParseItems(toks, r[2], Append(acc, r[1]))
json_load(toks) == ParseValue(toks, 1)[1]

\* ------------------------------------------------------ os.path.splitext
\* File names are sequences of one-character strings.
Upper == <<"A","B","C","D","E","F","G","H","I","J","K","L","M",
           "N","O","P","Q","R","S","T","U","V","W","X","Y","Z">>
LowerLetters == <<"a","b","c","d","e","f","g","h","i","j","k","l","m",
                  "n","o","p","q","r","s","t","u","v","w","x","y","z">>
LowerChar(c) ==
    IF \E i \in 1..26 : Upper[i] = c
    THEN LowerLetters[CHOOSE i \in 1..26 : Upper[i] = c]
    ELSE c
\* str.lower()
lower(s) == [i \in 1..Len(s) |-> LowerChar(s[i])]

Max(S) == CHOOSE x \in S : \A y \in S : y <= x
\* str.rfind, 1-based, 0 when absent
rfind(s, c) == Max({0} \cup {i \in 1..Len(s) : s[i] = c})

\* os.path.splitext(p)[1]: the extension starts at the last dot of the last
\* path component, unless that component has only dots before it
splitext_ext(p) ==
    LET sepIndex == rfind(p, "/")
        dotIndex == rfind(p, ".")
    IN IF dotIndex > sepIndex
          /\ \E j \in (sepIndex + 1)..(dotIndex - 1) : p[j] # "."
       THEN SubSeq(p, dotIndex, Len(p))
       ELSE <<>>

\* the allow-list with a text format let in
allowed_extensions_txt ==
    << <<".","m","p","3">>, <<".","w","a","v">>, <<".","m","4","a">>,
       <<".","o","g","g">>, <<".","f","l","a","c">>, <<".","t","x","t">> >>

allowed_extensions ==
    << <<".","m","p","3">>, <<".","w","a","v">>, <<".","m","4","a">>,
       <<".","o","g","g">>, <<".","f","l","a","c">> >>

InList(x, l) == \E i \in 1..Len(l) : l[i] = x

\* ----------------------------------------------------------------- state
VARIABLES
    processing_status,  \* the in-memory dict: file_id -> upload record
    uploads,            \* UPLOAD_DIR: <<file_id, ext>> -> bytes
    transcripts,        \* TRANSCRIPTS_DIR: <<transcript_id, ".json">> -> JSON tokens
    summaries,          \* SUMMARIES_DIR: <<summary_id, ".json">> -> JSON tokens
    notes,              \* NOTES_DIR: <<note_id, ".json">> -> JSON tokens
    issued,             \* the identifiers uuid4 has returned so far
    request,            \* the request being answered
    response,           \* the response to it
    saves_ok,           \* number of save-notes requests answered with success
    now,                \* the clock: the number of times datetime.now() was read
    session,            \* st.session_state of the one browser session of the UI
    result,             \* the dict the UI's last backend call returned
    threads             \* the pool's threads: the handler each runs and its locals

vars == <<processing_status, uploads, transcripts, summaries, notes,
          issued, request, response, saves_ok, now, session, result, threads>>

\* the state of the backend process and its directories
backend == <<processing_status, uploads, transcripts, summaries, notes,
             issued, request, response, saves_ok, now>>
\* the state of the UI
frontend == <<session, result>>

disk == <<uploads, transcripts, summaries, notes>>

DotJson == <<".","j","s","o","n">>
\* f"{id}.json"
JsonName(id) == <<id, DotJson>>
\* filename.endswith('.json')
endswith_json(name) == name[2] = DotJson
\* os.path.exists(os.path.join(dir, name))
exists(dir, name) == name \in DOMAIN dir
\* the directory emptied before the file is written
write_truncating(dir, name, data) == [n \in {name} |-> data]

\* the file created but its data not written
write_empty(dir, name, data) ==
    [n \in DOMAIN dir \cup {name} |-> IF n = name THEN <<>> ELSE dir[n]]

\* open(path, 'w') and write: creates or replaces the file
write(dir, name, data) == [n \in DOMAIN dir \cup {name} |-> IF n = name THEN data ELSE dir[n]]

EmptyDir == [n \in {} |-> <<>>]
NoRequest == [endpoint |-> "none"]
NoResponse == [status_code |-> 0, content |-> None]

JSONResponse(status_code, content) == [status_code |-> status_code, content |-> content]
HTTPException(status_code, detail) == [status_code |-> status_code, detail |-> detail]

\* str(e) of the exceptions the handlers can catch
StrHTTPException(e) == <<e.status_code, e.detail>>
FileNotFoundError(dirname, name) == <<"No such file or directory", dirname, name>>

\* the 404 handler answering with the status of the 500 handler
not_found_handler_500(exc) ==
    JSONResponse(500, Dict(<< <<"success", Bool(FALSE)>>,
                              <<"message", Str("Resource not found")>>,
                              <<"error", Str(exc.detail)>> >>))

\* @app.exception_handler(404)
not_found_handler(exc) ==
    JSONResponse(404, Dict(<< <<"success", Bool(FALSE)>>,
                              <<"message", Str("Resource not found")>>,
                              <<"error", Str(exc.detail)>> >>))

\* the HTTPException falling into the blanket handler instead of being re-raised
raise_http_swallowed(exc) ==
    JSONResponse(500, Dict(<< <<"success", Bool(FALSE)>>,
                              <<"message", Str("Transcription failed")>>,
                              <<"error", Str(<<exc.status_code, exc.detail>>)>> >>))

\* what the framework answers for an HTTPException that leaves a handler:
\* the registered 404 handler, else its default {"detail": ...} body
raise_http(exc) ==
    IF exc.status_code = 404 THEN not_found_handler(exc)
    ELSE JSONResponse(exc.status_code, Dict(<< <<"detail", Str(exc.detail)>> >>))

\* the blanket handler telling a missing file apart as a 404
except_Exception_404(message, err) ==
    JSONResponse(404, Dict(<< <<"success", Bool(FALSE)>>,
                              <<"message", Str(message)>>,
                              <<"error", Str(err)>> >>))

\* the blanket "except Exception as e" branch of a handler
except_Exception(message, err) ==
    JSONResponse(500, Dict(<< <<"success", Bool(FALSE)>>,
                              <<"message", Str(message)>>,
                              <<"error", Str(err)>> >>))

\* str(uuid.uuid4()): an identifier not handed out before.  Identifiers are
\* opaque and only compared for equality, so they are numbered in the order
\* of generation; the set is empty when the bound is exhausted.
generate_id == {id \in Ids \ issued : \A other \in Ids \ issued : id <= other}
\* datetime.now().isoformat(): t is the clock at the read.  The clock has
\* the resolution to tell any two reads apart: it advances with every read.
get_timestamp(t) == Str(t)

\* the threads of the pool that runs the "def" (not "async def") handlers
Threads == 1..MaxThreads
\* a thread that runs no handler
idle == [pc |-> "idle"]

\* the session fields as the first run of the UI script sets them
session_state ==
    [file_id |-> None, transcript_id |-> None, summary_id |-> None,
     note_id |-> None, transcript_data |-> None, summary_data |-> None,
     processing_stage |-> "upload"]

Init ==
    /\ processing_status = [f \in {} |-> None]
    /\ uploads = EmptyDir
    /\ transcripts = EmptyDir
    /\ summaries = EmptyDir
    /\ notes = EmptyDir
    /\ issued = {}
    /\ request = NoRequest
    /\ response = NoResponse
    /\ saves_ok = 0
    /\ now = 0
    /\ session = session_state
    /\ result = None
    /\ threads = [t \in Threads |-> idle]

\* ------------------------------------------------------------- handlers
\* Every handler is one action: it takes the request's inputs, the identifier
\* generate_id returns and the timestamps get_timestamp returns.

\* GET /
root ==
    /\ request' = [endpoint |-> "root"]
    /\ response' = JSONResponse(200, Dict(<<
            <<"message", Str("Audio Transcription API is running")>>,
            <<"version", Str("1.0.0")>>,
            <<"status", Str("healthy")>>,
            <<"endpoints", Dict(<< <<"upload", Str("/upload-audio")>>,
                                   <<"transcribe", Str("/transcribe")>>,
                                   <<"summarize", Str("/summarize")>>,
                                   <<"save", Str("/save-notes")>>,
                                   <<"retrieve", Str("/notes/{note_id}")>> >>)>> >>))
    /\ UNCHANGED <<processing_status, disk, issued, saves_ok, now>>

InvalidFormatDetail == <<"Invalid file format. Allowed formats: ", allowed_extensions>>

\* POST /upload-audio
upload_audio(filename, content, file_id) ==
    LET file_ext == lower(splitext_ext(filename))
        t1 == now
        t2 == now + 1
    IN /\ request' = [endpoint |-> "upload-audio", filename |-> filename, content |-> content]
       /\ IF ~InList(file_ext, allowed_extensions)
          THEN \* raise HTTPException(400), caught by "except Exception" of the handler
               /\ response' = except_Exception("Failed to upload audio file",
                                    StrHTTPException(HTTPException(400, InvalidFormatDetail)))
               /\ UNCHANGED <<processing_status, disk, issued, saves_ok, now>>
          ELSE /\ issued' = issued \cup {file_id}
               /\ uploads' = write(uploads, <<file_id, file_ext>>, content)
               /\ processing_status' =
                      [f \in DOMAIN processing_status \cup {file_id} |->
                          IF f = file_id
                          THEN Dict(<< <<"status", Str("uploaded")>>,
                                       <<"filename", Str(filename)>>,
                                       <<"file_size", Num(Len(content))>>,
                                       <<"upload_timestamp", get_timestamp(t1)>> >>)
                          ELSE processing_status[f]]
               /\ response' = JSONResponse(200, Dict(<<
                      <<"success", Bool(TRUE)>>,
                      <<"message", Str("Audio file uploaded successfully")>>,
                      <<"data", Dict(<< <<"file_id", Str(file_id)>>,
                                        <<"filename", Str(filename)>>,
                                        <<"file_size_bytes", Num(Len(content))>>,
                                        <<"format", Str(file_ext)>>,
                                        <<"upload_timestamp", get_timestamp(t2)>> >>)>> >>))
               /\ now' = now + 2
               /\ UNCHANGED <<transcripts, summaries, notes, saves_ok>>

\* the transcript naming itself as its audio file
simulate_asr_processing_self(audio_file_id, transcript_id, t) ==
    Dict(<< <<"transcript_id", Str(transcript_id)>>,
            <<"audio_file_id", Str(transcript_id)>>,
            <<"transcript_text", Str("")>>,
            <<"duration_seconds", Num(120)>>,
            <<"language", Str("en")>>,
            <<"confidence", Float(95)>>,
            <<"timestamp", get_timestamp(t)>>,
            <<"metadata", Dict(<< <<"speaker_count", Num(1)>>,
                                  <<"audio_quality", Str("high")>> >>)>> >>)

simulate_asr_processing(audio_file_id, transcript_id, t) ==
    Dict(<< <<"transcript_id", Str(transcript_id)>>,
            <<"audio_file_id", Str(audio_file_id)>>,
            <<"transcript_text", Str("This is a simulated transcript of the audio recording. In a real implementation, this would be the output from an ASR service like Whisper, Google Speech-to-Text, or Azure Speech Services.")>>,
            <<"duration_seconds", Num(120)>>,
            <<"language", Str("en")>>,
            <<"confidence", Float(95)>>,
            <<"timestamp", get_timestamp(t)>>,
            <<"metadata", Dict(<< <<"speaker_count", Num(1)>>,
                                  <<"audio_quality", Str("high")>> >>)>> >>)

simulate_nlp_processing(transcript_text, summary_id, t) ==
    Dict(<< <<"summary_id", Str(summary_id)>>,
            <<"summary_text", Str("Summary: This recording covers key concepts and important points. Main topics discussed include fundamental principles and practical applications.")>>,
            <<"key_points", List(<< Str("First key point extracted from the transcript"),
                                    Str("Second important concept discussed"),
                                    Str("Third major takeaway from the content") >>)>>,
            <<"entities", List(<< Str("concept"), Str("principle"), Str("application") >>)>>,
            <<"sentiment", Str("neutral")>>,
            <<"timestamp", get_timestamp(t)>> >>)

\* POST /transcribe
transcribe_audio(audio_file_id, language, transcript_id) ==
    /\ request' = [endpoint |-> "transcribe", audio_file_id |-> audio_file_id,
                                              language |-> language]
    /\ IF audio_file_id \notin DOMAIN processing_status
       THEN \* raise HTTPException(404), re-raised by "except HTTPException"
            /\ response' = raise_http(HTTPException(404,
                                "Audio file not found. Please upload the file first."))
            /\ UNCHANGED <<processing_status, disk, issued, saves_ok, now>>
       ELSE LET asr_output == simulate_asr_processing(audio_file_id, transcript_id, now)
            IN /\ issued' = issued \cup {transcript_id}
               /\ transcripts' = write(transcripts, JsonName(transcript_id),
                                       json_dump(asr_output))
               /\ processing_status' =
                      [processing_status EXCEPT ![audio_file_id] =
                          DictSet(DictSet(@, "status", Str("transcribed")),
                                  "transcript_id", DictGet(asr_output, "transcript_id"))]
               /\ response' = JSONResponse(200, Dict(<<
                      <<"success", Bool(TRUE)>>,
                      <<"message", Str("Audio transcribed successfully")>>,
                      <<"data", asr_output>> >>))
               /\ now' = now + 1
               /\ UNCHANGED <<uploads, summaries, notes, saves_ok>>

\* POST /summarize
summarize_transcript(transcript_id, summary_type, summary_id) ==
    LET transcript_file == JsonName(transcript_id)
    IN /\ request' = [endpoint |-> "summarize", transcript_id |-> transcript_id,
                                                summary_type |-> summary_type]
       /\ IF ~exists(transcripts, transcript_file)
          THEN /\ response' = raise_http(HTTPException(404,
                                   "Transcript not found. Please transcribe the audio first."))
               /\ UNCHANGED <<processing_status, disk, issued, saves_ok, now>>
          ELSE LET transcript_data == json_load(transcripts[transcript_file])
                   nlp_output == DictSet(
                       simulate_nlp_processing(DictGet(transcript_data, "transcript_text"),
                                               summary_id, now),
                       "transcript_id", Str(transcript_id))
               IN /\ issued' = issued \cup {summary_id}
                  /\ summaries' = write(summaries, JsonName(summary_id),
                                        json_dump(nlp_output))
                  /\ response' = JSONResponse(200, Dict(<<
                         <<"success", Bool(TRUE)>>,
                         <<"message", Str("Transcript summarized successfully")>>,
                         <<"data", nlp_output>> >>))
                  /\ now' = now + 1
                  /\ UNCHANGED <<processing_status, uploads, transcripts, notes, saves_ok>>

\* save-notes refusing a summary that was made from another transcript
save_notes_lineage(transcript_id, summary_id, user_notes, note_id) ==
    LET transcript_file == JsonName(transcript_id)
        summary_file == JsonName(summary_id)
    IN /\ request' = [endpoint |-> "save-notes", transcript_id |-> transcript_id,
                      summary_id |-> summary_id, user_notes |-> user_notes]
       /\ IF \/ ~exists(transcripts, transcript_file)
             \/ ~exists(summaries, summary_file)
             \/ DictGet(json_load(summaries[summary_file]), "transcript_id")
                   # Str(transcript_id)
          THEN /\ response' = except_Exception("Failed to save notes",
                                    FileNotFoundError("summaries", summary_file))
               /\ UNCHANGED <<processing_status, disk, issued, saves_ok, now>>
          ELSE LET notes_document ==
                       Dict(<< <<"note_id", Str(note_id)>>,
                               <<"transcript_id", Str(transcript_id)>>,
                               <<"summary_id", Str(summary_id)>>,
                               <<"created_at", get_timestamp(now)>>,
                               <<"transcript", json_load(transcripts[transcript_file])>>,
                               <<"summary", json_load(summaries[summary_file])>>,
                               <<"user_notes", user_notes>>,
                               <<"status", Str("saved")>> >>)
               IN /\ issued' = issued \cup {note_id}
                  /\ notes' = write(notes, JsonName(note_id), json_dump(notes_document))
                  /\ response' = JSONResponse(200, Dict(<<
                         <<"success", Bool(TRUE)>>,
                         <<"message", Str("Notes saved successfully")>>,
                         <<"data", Dict(<<
                             <<"note_id", Str(note_id)>>,
                             <<"created_at", DictGet(notes_document, "created_at")>>,
                             <<"transcript_length", Num(0)>>,
                             <<"summary_points", Num(3)>>,
                             <<"has_user_notes", Bool(bool(user_notes))>> >>)>> >>))
                  /\ saves_ok' = saves_ok + 1
                  /\ now' = now + 1
                  /\ UNCHANGED <<processing_status, uploads, transcripts, summaries>>

\* POST /save-notes
save_notes(transcript_id, summary_id, user_notes, note_id) ==
    LET transcript_file == JsonName(transcript_id)
        summary_file == JsonName(summary_id)
    IN /\ request' = [endpoint |-> "save-notes", transcript_id |-> transcript_id,
                      summary_id |-> summary_id, user_notes |-> user_notes]
       /\ IF ~exists(transcripts, transcript_file)
          THEN \* open() raises FileNotFoundError, caught by "except Exception"
               /\ response' = except_Exception("Failed to save notes",
                                    FileNotFoundError("transcripts", transcript_file))
               /\ UNCHANGED <<processing_status, disk, issued, saves_ok, now>>
          ELSE IF ~exists(summaries, summary_file)
          THEN /\ response' = except_Exception("Failed to save notes",
                                    FileNotFoundError("summaries", summary_file))
               /\ UNCHANGED <<processing_status, disk, issued, saves_ok, now>>
          ELSE LET transcript_data == json_load(transcripts[transcript_file])
                   summary_data == json_load(summaries[summary_file])
                   notes_document ==
                       Dict(<< <<"note_id", Str(note_id)>>,
                               <<"transcript_id", Str(transcript_id)>>,
                               <<"summary_id", Str(summary_id)>>,
                               <<"created_at", get_timestamp(now)>>,
                               <<"transcript", transcript_data>>,
                               <<"summary", summary_data>>,
                               <<"user_notes", user_notes>>,
                               <<"status", Str("saved")>> >>)
               IN /\ issued' = issued \cup {note_id}
                  /\ notes' = write(notes, JsonName(note_id), json_dump(notes_document))
                  /\ response' = JSONResponse(200, Dict(<<
                         <<"success", Bool(TRUE)>>,
                         <<"message", Str("Notes saved successfully")>>,
                         <<"data", Dict(<<
                             <<"note_id", Str(note_id)>>,
                             <<"created_at", DictGet(notes_document, "created_at")>>,
                             <<"transcript_length",
                               Num(len(DictGetDefault(transcript_data, "transcript_text", Str(""))))>>,
                             <<"summary_points",
                               Num(len(DictGetDefault(summary_data, "key_points", List(<<>>))))>>,
                             <<"has_user_notes", Bool(bool(user_notes))>> >>)>> >>))
                  /\ saves_ok' = saves_ok + 1
                  /\ now' = now + 1
                  /\ UNCHANGED <<processing_status, uploads, transcripts, summaries>>

\* a missing note answered as an empty success
get_notes_lenient(note_id) ==
    LET notes_file == JsonName(note_id)
    IN /\ request' = [endpoint |-> "get-notes", note_id |-> note_id]
       /\ response' = JSONResponse(200, Dict(<<
              <<"success", Bool(TRUE)>>,
              <<"message", Str("Notes retrieved successfully")>>,
              <<"data", IF exists(notes, notes_file)
                        THEN json_load(notes[notes_file]) ELSE Dict(<<>>)>> >>))
       /\ UNCHANGED <<processing_status, disk, issued, saves_ok, now>>

\* GET /notes/{note_id}
get_notes(note_id) ==
    LET notes_file == JsonName(note_id)
    IN /\ request' = [endpoint |-> "get-notes", note_id |-> note_id]
       /\ IF ~exists(notes, notes_file)
          THEN response' = raise_http(HTTPException(404, "Notes not found"))
          ELSE LET notes_data == json_load(notes[notes_file])
               IN response' = JSONResponse(200, Dict(<<
                      <<"success", Bool(TRUE)>>,
                      <<"message", Str("Notes retrieved successfully")>>,
                      <<"data", notes_data>> >>))
       /\ UNCHANGED <<processing_status, disk, issued, saves_ok, now>>

\* the orders in which os.listdir may return the files of a directory
listdir(dir) ==
    {o \in [1..Cardinality(DOMAIN dir) -> DOMAIN dir] :
        \A i, j \in DOMAIN o : i # j => o[i] # o[j]}

\* the whole note listed
NoteEntry_full(note_data) == note_data

\* the entry list_all_notes appends for one file
NoteEntry(note_data) ==
    Dict(<< <<"note_id", DictGet(note_data, "note_id")>>,
            <<"created_at", DictGet(note_data, "created_at")>>,
            <<"has_user_notes", Bool(bool(DictGetDefault(note_data, "user_notes", None)))>> >>)

RECURSIVE NotesList(_, _)
NotesList(filenames, dir) ==
    IF filenames = <<>> THEN <<>>
    ELSE IF endswith_json(Head(filenames))
         THEN <<NoteEntry(json_load(dir[Head(filenames)]))>> \o NotesList(Tail(filenames), dir)
         ELSE NotesList(Tail(filenames), dir)

\* GET /notes
list_all_notes(filenames) ==
    LET notes_list == NotesList(filenames, notes)
    IN /\ request' = [endpoint |-> "list-notes"]
       /\ response' = JSONResponse(200, Dict(<<
              <<"success", Bool(TRUE)>>,
              <<"message", Str(<<"Found ", Len(notes_list), " notes">>)>>,
              <<"data", Dict(<< <<"count", Num(Len(notes_list))>>,
                                <<"notes", List(notes_list)>> >>)>> >>))
       /\ UNCHANGED <<processing_status, disk, issued, saves_ok, now>>

\* GET /status/{file_id}
get_processing_status(file_id) ==
    /\ request' = [endpoint |-> "status", file_id |-> file_id]
    /\ IF file_id \notin DOMAIN processing_status
       THEN response' = raise_http(HTTPException(404, "File not found"))
       ELSE response' = JSONResponse(200, Dict(<<
                <<"success", Bool(TRUE)>>,
                <<"message", Str("Status retrieved successfully")>>,
                <<"data", processing_status[file_id]>> >>))
    /\ UNCHANGED <<processing_status, disk, issued, saves_ok, now>>

\* The process is started again: the module body runs anew, processing_status
\* is the empty dict, the directories are kept (os.makedirs(exist_ok=True)).
restart ==
    /\ processing_status' = [f \in {} |-> None]
    /\ request' = [endpoint |-> "restart"]
    /\ response' = NoResponse
    /\ UNCHANGED <<disk, issued, saves_ok, now>>

\* --------------------------------------------------------------- inputs
\* the files a client uploads: name and bytes
Files ==
    { [filename |-> <<"a",".","m","p","3">>, content |-> <<>>],          \* allowed, empty
      [filename |-> <<"b",".","W","A","V">>, content |-> <<82, 73>>],    \* allowed after lower()
      [filename |-> <<"c",".","t","x","t">>, content |-> <<104>>],       \* not allowed
      [filename |-> <<"m","p","3">>, content |-> <<>>],                  \* no extension
      [filename |-> <<".","m","p","3">>, content |-> <<73>>],            \* leading dot: no extension
      [filename |-> <<"d",".","o","g","g","/","e">>, content |-> <<79>>] }  \* dot in a directory name
Languages == {Str("en")}
SummaryTypes == {Str("standard")}
UserNotes == {None, Str(""), Str("my notes")}

\* the identifiers of the files of a directory
StoredIds(dir) == {name[1] : name \in DOMAIN dir}
\* The identifiers a request names: a handler only tests whether the
\* identifier is present, so requests name each identifier that is present
\* and one that is not (the first such).
Named(present) ==
    present \cup {id \in Ids \ present : \A other \in Ids \ present : id <= other}

Root == root /\ UNCHANGED <<frontend, threads>>
UploadAudio ==
    /\ Cardinality(DOMAIN uploads) < MaxUploads
    /\ \E file \in Files, file_id \in generate_id :
          upload_audio(file.filename, file.content, file_id)
    /\ UNCHANGED <<frontend, threads>>
TranscribeAudio ==
    /\ \E audio_file_id \in Named(DOMAIN processing_status), language \in Languages,
          transcript_id \in generate_id :
             transcribe_audio(audio_file_id, language, transcript_id)
    /\ UNCHANGED <<frontend, threads>>
SummarizeTranscript ==
    /\ \E transcript_id \in Named(StoredIds(transcripts)), summary_type \in SummaryTypes,
          summary_id \in generate_id :
             summarize_transcript(transcript_id, summary_type, summary_id)
    /\ UNCHANGED <<frontend, threads>>
SaveNotes ==
    /\ \E transcript_id \in Named(StoredIds(transcripts)),
          summary_id \in Named(StoredIds(summaries)),
          user_notes \in UserNotes, note_id \in generate_id :
             save_notes(transcript_id, summary_id, user_notes, note_id)
    /\ UNCHANGED <<frontend, threads>>
GetNotes ==
    /\ \E note_id \in Named(StoredIds(notes)) : get_notes(note_id)
    /\ UNCHANGED <<frontend, threads>>
ListAllNotes ==
    /\ \E filenames \in listdir(notes) : list_all_notes(filenames)
    /\ UNCHANGED <<frontend, threads>>
GetProcessingStatus ==
    /\ \E file_id \in Named(DOMAIN processing_status) : get_processing_status(file_id)
    /\ UNCHANGED <<frontend, threads>>
Restart == restart /\ UNCHANGED <<frontend, threads>>

Next ==
    \/ Root
    \/ UploadAudio
    \/ TranscribeAudio
    \/ SummarizeTranscript
    \/ SaveNotes
    \/ GetNotes
    \/ ListAllNotes
    \/ GetProcessingStatus
    \/ Restart

Spec == Init /\ [][Next]_vars

\* ------------------------------------------------------------------- UI
\* The Upload & Process page of src/frontend_app.py, driven by one browser
\* session.  A click on a button runs the script once: the helper posts the
\* request to the backend, which answers it, and the script assigns the
\* session fields from the answer.

\* truth of a value in an if: None is false, a bool is itself, and the
\* identifiers and documents the script tests are never empty
truthy(v) == IF v = None THEN FALSE ELSE IF v[1] = "bool" THEN v[2] ELSE TRUE

\* type=['mp3', 'wav', 'm4a', 'ogg', 'flac'] of st.file_uploader
file_uploader_type ==
    { <<"m","p","3">>, <<"w","a","v">>, <<"m","4","a">>, <<"o","g","g">>,
      <<"f","l","a","c">> }
\* the files the uploader widget accepts: the name ends, in any letter case,
\* with a dot and one of the types
Uploadable ==
    {file \in Files : \E type \in file_uploader_type :
        /\ Len(file.filename) > Len(type)
        /\ lower(SubSeq(file.filename, Len(file.filename) - Len(type),
                        Len(file.filename))) = <<".">> \o type}
\* what st.text_area returns: a string, empty when nothing was typed
TextArea == {Str(""), Str("my notes")}

\* except Exception as e: return {"success": False, "error": str(e)}
requests_failed ==
    Dict(<< <<"success", Bool(FALSE)>>, <<"error", Str("ConnectionError")>> >>)

\* the helper's return value: response.json() when the backend answered
\* (it answers within the step), the error dict when requests raised
call_backend(reachable, handler) ==
    IF reachable
    THEN handler /\ result' = response'.content
    ELSE result' = requests_failed /\ UNCHANGED backend

\* the assignments under "if result.get("success")" of each button; the
\* else branch only shows st.error
upload_btn_assigns(res) ==
    IF truthy(DictGetDefault(res, "success", None))
    THEN [session EXCEPT !.file_id = DictGet(DictGet(res, "data"), "file_id"),
                         !.processing_stage = "transcribe"]
    ELSE session
transcribe_btn_assigns(res) ==
    IF truthy(DictGetDefault(res, "success", None))
    THEN [session EXCEPT !.transcript_id = DictGet(DictGet(res, "data"), "transcript_id"),
                         !.transcript_data = DictGet(res, "data"),
                         !.processing_stage = "summarize"]
    ELSE session
summarize_btn_assigns(res) ==
    IF truthy(DictGetDefault(res, "success", None))
    THEN [session EXCEPT !.summary_id = DictGet(DictGet(res, "data"), "summary_id"),
                         !.summary_data = DictGet(res, "data"),
                         !.processing_stage = "save"]
    ELSE session
\* save_btn assigning the stage outside the if
save_btn_assigns_always(res) ==
    [session EXCEPT !.note_id = IF truthy(DictGetDefault(res, "success", None))
                                THEN DictGet(DictGet(res, "data"), "note_id")
                                ELSE @,
                    !.processing_stage = "complete"]
save_btn_assigns(res) ==
    IF truthy(DictGetDefault(res, "success", None))
    THEN [session EXCEPT !.note_id = DictGet(DictGet(res, "data"), "note_id"),
                         !.processing_stage = "complete"]
    ELSE session

\* "Upload File": shown when a file is chosen
upload_btn(file, file_id, reachable) ==
    /\ call_backend(reachable, upload_audio(file.filename, file.content, file_id))
    /\ session' = upload_btn_assigns(result')
\* "Start Transcription": shown when session file_id is set; the request
\* carries no language, so the backend takes its default "en"
transcribe_btn(transcript_id, reachable) ==
    /\ truthy(session.file_id)
    /\ call_backend(reachable,
                    transcribe_audio(session.file_id[2], Str("en"), transcript_id))
    /\ session' = transcribe_btn_assigns(result')
\* "Summarize Transcript": shown when session transcript_id is set; the
\* request carries no summary_type, so the backend takes "standard"
summarize_btn(summary_id, reachable) ==
    /\ truthy(session.transcript_id)
    /\ call_backend(reachable,
                    summarize_transcript(session.transcript_id[2], Str("standard"),
                                         summary_id))
    /\ session' = summarize_btn_assigns(result')
\* "Save Notes": shown when session summary_id is set
save_btn(user_notes, note_id, reachable) ==
    /\ truthy(session.summary_id)
    /\ call_backend(reachable,
                    save_notes(session.transcript_id[2], session.summary_id[2],
                               user_notes, note_id))
    /\ session' = save_btn_assigns(result')

UploadBtn ==
    /\ Cardinality(DOMAIN uploads) < MaxUploads
    /\ \E file \in Uploadable, file_id \in generate_id, reachable \in BOOLEAN :
          upload_btn(file, file_id, reachable)
    /\ UNCHANGED threads
TranscribeBtn ==
    /\ \E transcript_id \in generate_id, reachable \in BOOLEAN :
          transcribe_btn(transcript_id, reachable)
    /\ UNCHANGED threads
SummarizeBtn ==
    /\ \E summary_id \in generate_id, reachable \in BOOLEAN :
          summarize_btn(summary_id, reachable)
    /\ UNCHANGED threads
SaveBtn ==
    /\ \E user_notes \in TextArea, note_id \in generate_id, reachable \in BOOLEAN :
          save_btn(user_notes, note_id, reachable)
    /\ UNCHANGED threads

\* the UI session and the backend it talks to, which can be started again
NextUI ==
    \/ UploadBtn
    \/ TranscribeBtn
    \/ SummarizeBtn
    \/ SaveBtn
    \/ Restart

SpecUI == Init /\ [][NextUI]_vars

\* ------------------------------------------------------------ threads
\* The handlers are plain "def" functions, which the framework runs in the
\* threads of a pool: requests run at the same time and interleave between
\* the statements that read or write processing_status and the
\* directories.  A thread's record holds the handler's position (pc), its
\* locals and the shared entities the request has written so far (wrote).
\* upload_audio, transcribe_audio and get_processing_status are the handlers
\* that touch processing_status.

InFlight(t) == threads[t].pc # "idle"

\* upload_audio up to file_id = generate_id()
upload_audio_validate(t, filename, content, file_id) ==
    LET file_ext == lower(splitext_ext(filename))
    IN /\ threads[t].pc = "idle"
       /\ IF ~InList(file_ext, allowed_extensions)
          THEN /\ request' = [endpoint |-> "upload-audio", filename |-> filename,
                              content |-> content]
               /\ response' = except_Exception("Failed to upload audio file",
                                    StrHTTPException(HTTPException(400, InvalidFormatDetail)))
               /\ UNCHANGED <<issued, threads>>
          ELSE /\ issued' = issued \cup {file_id}
               /\ threads' = [threads EXCEPT ![t] =
                      [pc |-> "upload_write", filename |-> filename, content |-> content,
                       file_ext |-> file_ext, file_id |-> file_id, wrote |-> {}]]
               /\ UNCHANGED <<request, response>>
       /\ UNCHANGED <<processing_status, disk, saves_ok, now, frontend>>

\* with open(file_path, 'wb') as f: f.write(content)
upload_audio_write(t) ==
    /\ threads[t].pc = "upload_write"
    /\ uploads' = write(uploads, <<threads[t].file_id, threads[t].file_ext>>,
                        threads[t].content)
    /\ threads' = [threads EXCEPT ![t].pc = "upload_record",
                                  ![t].wrote = @ \cup {<<"uploads", threads[t].file_id>>}]
    /\ UNCHANGED <<processing_status, transcripts, summaries, notes, issued,
                   request, response, saves_ok, now, frontend>>

\* processing_status[file_id] = {...}
upload_audio_record(t) ==
    /\ threads[t].pc = "upload_record"
    /\ processing_status' =
           [f \in DOMAIN processing_status \cup {threads[t].file_id} |->
               IF f = threads[t].file_id
               THEN Dict(<< <<"status", Str("uploaded")>>,
                            <<"filename", Str(threads[t].filename)>>,
                            <<"file_size", Num(Len(threads[t].content))>>,
                            <<"upload_timestamp", get_timestamp(now)>> >>)
               ELSE processing_status[f]]
    /\ now' = now + 1
    /\ threads' = [threads EXCEPT ![t].pc = "upload_return",
                                  ![t].wrote = @ \cup {<<"processing_status", threads[t].file_id>>}]
    /\ UNCHANGED <<disk, issued, request, response, saves_ok, frontend>>

\* return JSONResponse(...) of upload_audio
upload_audio_return(t) ==
    /\ threads[t].pc = "upload_return"
    /\ request' = [endpoint |-> "upload-audio", filename |-> threads[t].filename,
                   content |-> threads[t].content]
    /\ response' = JSONResponse(200, Dict(<<
           <<"success", Bool(TRUE)>>,
           <<"message", Str("Audio file uploaded successfully")>>,
           <<"data", Dict(<< <<"file_id", Str(threads[t].file_id)>>,
                             <<"filename", Str(threads[t].filename)>>,
                             <<"file_size_bytes", Num(Len(threads[t].content))>>,
                             <<"format", Str(threads[t].file_ext)>>,
                             <<"upload_timestamp", get_timestamp(now)>> >>)>> >>))
    /\ now' = now + 1
    /\ threads' = [threads EXCEPT ![t] = idle]
    /\ UNCHANGED <<processing_status, disk, issued, saves_ok, frontend>>

\* transcribe_audio up to asr_output = simulate_asr_processing(...)
transcribe_audio_check(t, audio_file_id, language, transcript_id) ==
    /\ threads[t].pc = "idle"
    /\ IF audio_file_id \notin DOMAIN processing_status
       THEN /\ request' = [endpoint |-> "transcribe", audio_file_id |-> audio_file_id,
                           language |-> language]
            /\ response' = raise_http(HTTPException(404,
                                "Audio file not found. Please upload the file first."))
            /\ UNCHANGED <<issued, now, threads>>
       ELSE /\ issued' = issued \cup {transcript_id}
            /\ now' = now + 1
            /\ threads' = [threads EXCEPT ![t] =
                   [pc |-> "transcribe_write", audio_file_id |-> audio_file_id,
                    language |-> language,
                    asr_output |-> simulate_asr_processing(audio_file_id, transcript_id, now),
                    wrote |-> {}]]
            /\ UNCHANGED <<request, response>>
    /\ UNCHANGED <<processing_status, disk, saves_ok, frontend>>

\* with open(transcript_file, 'w') as f: json.dump(asr_output, f, indent=2)
transcribe_audio_write(t) ==
    /\ threads[t].pc = "transcribe_write"
    /\ LET transcript_id == DictGet(threads[t].asr_output, "transcript_id")[2]
       IN /\ transcripts' = write(transcripts, JsonName(transcript_id),
                                  json_dump(threads[t].asr_output))
          /\ threads' = [threads EXCEPT ![t].pc = "transcribe_status",
                                        ![t].wrote = @ \cup {<<"transcripts", transcript_id>>}]
    /\ UNCHANGED <<processing_status, uploads, summaries, notes, issued,
                   request, response, saves_ok, now, frontend>>

\* processing_status[request.audio_file_id]["status"] = "transcribed"
transcribe_audio_status(t) ==
    /\ threads[t].pc = "transcribe_status"
    /\ processing_status' = [processing_status EXCEPT ![threads[t].audio_file_id] =
           DictSet(@, "status", Str("transcribed"))]
    /\ threads' = [threads EXCEPT ![t].pc = "transcribe_transcript_id",
                                  ![t].wrote = @ \cup {<<"processing_status",
                                                         threads[t].audio_file_id>>}]
    /\ UNCHANGED <<disk, issued, request, response, saves_ok, now, frontend>>

\* processing_status[request.audio_file_id]["transcript_id"] = ... and the
\* return of transcribe_audio
transcribe_audio_transcript_id(t) ==
    /\ threads[t].pc = "transcribe_transcript_id"
    /\ processing_status' = [processing_status EXCEPT ![threads[t].audio_file_id] =
           DictSet(@, "transcript_id", DictGet(threads[t].asr_output, "transcript_id"))]
    /\ request' = [endpoint |-> "transcribe", audio_file_id |-> threads[t].audio_file_id,
                   language |-> threads[t].language]
    /\ response' = JSONResponse(200, Dict(<<
           <<"success", Bool(TRUE)>>,
           <<"message", Str("Audio transcribed successfully")>>,
           <<"data", threads[t].asr_output>> >>))
    /\ threads' = [threads EXCEPT ![t] = idle]
    /\ UNCHANGED <<disk, issued, saves_ok, now, frontend>>

\* the file_ids clients know: those an upload has returned.  A request names
\* one of them or an identifier that was never handed out.
Returned ==
    {f \in DOMAIN processing_status :
        \A t \in Threads : threads[t].pc \in {"upload_record", "upload_return"}
                               => threads[t].file_id # f}
\* uploads accepted and not yet stored
UploadsBegun == {t \in Threads : threads[t].pc = "upload_write"}

ReceiveUpload ==
    /\ Cardinality(DOMAIN uploads) + Cardinality(UploadsBegun) < MaxUploads
    /\ \E t \in Threads, file \in Files, file_id \in generate_id :
          upload_audio_validate(t, file.filename, file.content, file_id)
UploadWrite == \E t \in Threads : upload_audio_write(t)
UploadRecord == \E t \in Threads : upload_audio_record(t)
UploadReturn == \E t \in Threads : upload_audio_return(t)
ReceiveTranscribe ==
    \E t \in Threads, audio_file_id \in Returned \cup generate_id,
       language \in Languages, transcript_id \in generate_id :
          transcribe_audio_check(t, audio_file_id, language, transcript_id)
TranscribeWrite == \E t \in Threads : transcribe_audio_write(t)
TranscribeStatus == \E t \in Threads : transcribe_audio_status(t)
TranscribeTranscriptId == \E t \in Threads : transcribe_audio_transcript_id(t)
\* GET /status/{file_id} takes one step: it tests and reads processing_status
\* and builds the response from the record without yielding in between
ReadStatus ==
    /\ \E t \in Threads : threads[t].pc = "idle"
    /\ \E file_id \in Returned \cup generate_id : get_processing_status(file_id)
    /\ UNCHANGED <<frontend, threads>>

NextConc ==
    \/ ReceiveUpload
    \/ UploadWrite
    \/ UploadRecord
    \/ UploadReturn
    \/ ReceiveTranscribe
    \/ TranscribeWrite
    \/ TranscribeStatus
    \/ TranscribeTranscriptId
    \/ ReadStatus

SpecConc == Init /\ [][NextConc]_vars

\* ---------------------------------------------------------- properties
\* the step answers a request to the endpoint
Answers(endpoint) == request'.endpoint = endpoint
Answered(endpoint) == request.endpoint = endpoint
IsSuccess(resp) == DictHas(resp.content, "success") /\ DictGet(resp.content, "success") = Bool(TRUE)
IsFailure(resp) == DictHas(resp.content, "success") /\ DictGet(resp.content, "success") = Bool(FALSE)
Data(resp) == DictGet(resp.content, "data")

\* the file name ends, in any letter case, with a dot and one of mp3, wav,
\* m4a, ogg, flac
AudioSuffixes ==
    { <<".","m","p","3">>, <<".","w","a","v">>, <<".","m","4","a">>,
      <<".","o","g","g">>, <<".","f","l","a","c">> }
EndsWithAllowed(filename) ==
    \E e \in AudioSuffixes :
        /\ Len(filename) >= Len(e)
        /\ lower(SubSeq(filename, Len(filename) - Len(e) + 1, Len(filename))) = e

\* C1: an upload whose file name does not end in mp3, wav, m4a, ogg or flac is
\* rejected and the step adds no file to the uploads directory and no entry
\* to processing_status.
C1_RejectedBeforeWrite ==
    [][ (Answers("upload-audio") /\ ~EndsWithAllowed(request'.filename))
            => /\ IsFailure(response')
               /\ uploads' = uploads
               /\ processing_status' = processing_status ]_vars

C1_Witness ==
    /\ Answered("upload-audio")
    /\ request.filename = <<"c",".","t","x","t">>
    /\ IsFailure(response)

\* C2: an upload with a disallowed extension is answered with HTTP 400.
C2_DisallowedIs400 ==
    (Answered("upload-audio") /\ ~EndsWithAllowed(request.filename))
        => response.status_code = 400

\* C3: the file_id a successful upload returns is a key of processing_status
\* and stays one until the process restarts; a transcribe request naming a
\* key of processing_status is answered with success, and the transcript it
\* returns has that audio_file_id and is the document stored under the
\* returned transcript_id.
C3_UploadThenTranscribe ==
    [][ /\ (Answers("upload-audio") /\ IsSuccess(response'))
                => DictGet(Data(response'), "file_id")[2] \in DOMAIN processing_status'
        /\ ~Answers("restart") => DOMAIN processing_status \subseteq DOMAIN processing_status'
        /\ (Answers("transcribe") /\ request'.audio_file_id \in DOMAIN processing_status)
                => /\ response'.status_code = 200
                   /\ IsSuccess(response')
                   /\ DictGet(Data(response'), "audio_file_id") = Str(request'.audio_file_id)
                   /\ LET name == JsonName(DictGet(Data(response'), "transcript_id")[2])
                      IN /\ name \in DOMAIN transcripts'
                         /\ name \notin DOMAIN transcripts
                         /\ json_load(transcripts'[name]) = Data(response') ]_vars

C3_Witness ==
    /\ Answered("transcribe")
    /\ IsSuccess(response)
    /\ Cardinality(DOMAIN processing_status) = 2
    /\ DictGet(Data(response), "audio_file_id") = Str(request.audio_file_id)

\* C4: a transcribe request naming no key of processing_status is answered
\* with 404, writes no transcript and leaves processing_status unchanged.
C4_UnknownAudio404 ==
    [][ (Answers("transcribe") /\ request'.audio_file_id \notin DOMAIN processing_status)
            => /\ response'.status_code = 404
               /\ IsFailure(response')
               /\ transcripts' = transcripts
               /\ processing_status' = processing_status ]_vars

C4_Witness ==
    /\ Answered("transcribe")
    /\ request.audio_file_id \notin DOMAIN processing_status
    /\ response.status_code = 404

\* C5: a summarize request naming a transcript_id with no transcript file is
\* answered with 404 and creates no summary file.
C5_UnknownTranscript404 ==
    [][ (Answers("summarize") /\ ~exists(transcripts, JsonName(request'.transcript_id)))
            => /\ response'.status_code = 404
               /\ IsFailure(response')
               /\ summaries' = summaries ]_vars

C5_Witness ==
    /\ Answered("summarize")
    /\ ~exists(transcripts, JsonName(request.transcript_id))
    /\ response.status_code = 404
    /\ DOMAIN transcripts # {}

\* C6: a save-notes request naming an existing transcript and an existing
\* summary is answered with success and stores, under the returned note_id, a
\* note that embeds the transcript and the summary as they are on disk and
\* the supplied user_notes; stored notes never change; and GET /notes/{note_id}
\* of a stored note returns the document that is on disk.
C6_SaveRetrieveRoundTrip ==
    /\ [][ (/\ Answers("save-notes")
            /\ exists(transcripts, JsonName(request'.transcript_id))
            /\ exists(summaries, JsonName(request'.summary_id)))
            => /\ response'.status_code = 200
               /\ IsSuccess(response')
               /\ LET name == JsonName(DictGet(Data(response'), "note_id")[2])
                  IN /\ name \notin DOMAIN notes
                     /\ name \in DOMAIN notes'
                     /\ json_load(notes'[name]) =
                          Dict(<< <<"note_id", DictGet(Data(response'), "note_id")>>,
                                  <<"transcript_id", Str(request'.transcript_id)>>,
                                  <<"summary_id", Str(request'.summary_id)>>,
                                  <<"created_at", DictGet(Data(response'), "created_at")>>,
                                  <<"transcript",
                                    json_load(transcripts[JsonName(request'.transcript_id)])>>,
                                  <<"summary",
                                    json_load(summaries[JsonName(request'.summary_id)])>>,
                                  <<"user_notes", request'.user_notes>>,
                                  <<"status", Str("saved")>> >>) ]_vars
    /\ [][ \A name \in DOMAIN notes :
             name \in DOMAIN notes' /\ notes'[name] = notes[name] ]_vars
    /\ [][ (Answers("get-notes") /\ exists(notes, JsonName(request'.note_id)))
            => /\ response'.status_code = 200
               /\ IsSuccess(response')
               /\ DictGet(Data(response'), "note_id") = Str(request'.note_id)
               /\ json_dump(Data(response')) = notes[JsonName(request'.note_id)] ]_vars

C6_Witness ==
    /\ Answered("get-notes")
    /\ IsSuccess(response)
    /\ DictGet(Data(response), "user_notes") = Str("my notes")
    /\ DictGet(DictGet(Data(response), "transcript"), "metadata")
          = Dict(<< <<"speaker_count", Num(1)>>, <<"audio_quality", Str("high")>> >>)

\* C7: GET /notes is answered with as many entries as save-notes requests
\* have succeeded since the notes directory was empty, count is that number,
\* and every entry has the fields note_id, created_at, has_user_notes only.
C7_ListCountsSaves ==
    Answered("list-notes")
        => /\ response.status_code = 200
           /\ IsSuccess(response)
           /\ DictGet(Data(response), "count") = Num(saves_ok)
           /\ len(DictGet(Data(response), "notes")) = saves_ok
           /\ \A i \in 1..saves_ok :
                 DictKeys(DictGet(Data(response), "notes")[2][i])
                    = <<"note_id", "created_at", "has_user_notes">>

C7_Witness ==
    /\ Answered("list-notes")
    /\ saves_ok = 2
    /\ DictGet(Data(response), "count") = Num(2)

\* C8: a save-notes request naming a transcript or a summary with no file is
\* answered with 500 and writes no note, also when only one file is missing.
C8_MissingFileIs500 ==
    [][ (/\ Answers("save-notes")
         /\ \/ ~exists(transcripts, JsonName(request'.transcript_id))
            \/ ~exists(summaries, JsonName(request'.summary_id)))
            => /\ response'.status_code = 500
               /\ IsFailure(response')
               /\ notes' = notes ]_vars

C8_Witness ==
    /\ Answered("save-notes")
    /\ exists(transcripts, JsonName(request.transcript_id))
    /\ ~exists(summaries, JsonName(request.summary_id))
    /\ response.status_code = 500

\* C9: every response of every endpoint carries a success flag and a message.
C9_EveryResponseIsEnvelope ==
    request.endpoint \notin {"none", "restart"}
        => /\ DictHas(response.content, "success")
           /\ DictHas(response.content, "message")

\* the status field of an upload record
StatusOf(record) == DictGet(record, "status")

\* C10 as claimed: keys of processing_status appear only in uploads, no
\* request removes one, and a record that was mutated (it is "transcribed")
\* is not mutated again.
C10_MutatedAtMostOnce ==
    [][ ~Answers("restart")
            => /\ DOMAIN processing_status' # DOMAIN processing_status => Answers("upload-audio")
               /\ \A f \in DOMAIN processing_status :
                     /\ f \in DOMAIN processing_status'
                     /\ StatusOf(processing_status[f]) = Str("transcribed")
                          => processing_status'[f] = processing_status[f] ]_vars

\* C10 as amended: keys of processing_status appear only in uploads (with
\* status "uploaded"), no request removes one, and a record changes only in a
\* successful transcribe request for its file_id, which sets status to
\* "transcribed" and transcript_id to the new transcript and keeps the other
\* fields; a "transcribed" record stays "transcribed".
C10_RecordLifecycle ==
    [][ ~Answers("restart")
            => /\ \A f \in DOMAIN processing_status' \ DOMAIN processing_status :
                     /\ Answers("upload-audio")
                     /\ DictKeys(processing_status'[f])
                          = <<"status", "filename", "file_size", "upload_timestamp">>
                     /\ StatusOf(processing_status'[f]) = Str("uploaded")
               /\ \A f \in DOMAIN processing_status :
                     /\ f \in DOMAIN processing_status'
                     /\ processing_status'[f] # processing_status[f]
                          => /\ Answers("transcribe")
                             /\ request'.audio_file_id = f
                             /\ IsSuccess(response')
                             /\ DictKeys(processing_status'[f])
                                  = <<"status", "filename", "file_size",
                                      "upload_timestamp", "transcript_id">>
                             /\ StatusOf(processing_status'[f]) = Str("transcribed")
                             /\ DictGet(processing_status'[f], "transcript_id")
                                  = DictGet(Data(response'), "transcript_id")
                             /\ \A k \in {"filename", "file_size", "upload_timestamp"} :
                                   DictGet(processing_status'[f], k)
                                      = DictGet(processing_status[f], k)
                     /\ StatusOf(processing_status[f]) = Str("transcribed")
                          => StatusOf(processing_status'[f]) = Str("transcribed") ]_vars

\* a record transcribed a second time, now naming the second transcript
C10_Witness ==
    /\ Answered("transcribe")
    /\ IsSuccess(response)
    /\ Cardinality(StoredIds(transcripts)) = 2
    /\ Cardinality(DOMAIN uploads) = 1
    /\ request.audio_file_id \in DOMAIN processing_status
    /\ DictGet(processing_status[request.audio_file_id], "transcript_id")
          = DictGet(Data(response), "transcript_id")

\* the files of the directory are kept as they are by the step
Kept(dir, dirAfter) ==
    \A name \in DOMAIN dir : name \in DOMAIN dirAfter /\ dirAfter[name] = dir[name]

\* C11: every step leaves every transcript, summary and note file that was
\* written before it in place and with the same content.
C11_WrittenFilesImmutable ==
    [][ /\ Kept(transcripts, transcripts')
        /\ Kept(summaries, summaries')
        /\ Kept(notes, notes') ]_vars

\* a transcribe and a save are answered after a note was written
C11_Witness ==
    /\ Answered("save-notes")
    /\ IsSuccess(response)
    /\ Cardinality(DOMAIN notes) = 2
    /\ Cardinality(DOMAIN transcripts) = 1
    /\ Cardinality(DOMAIN summaries) = 1

\* the stored name of an upload: the file_id followed by the lower-case
\* extension of the uploaded name
StoredUploadNames(file_id, filename) ==
    {<<file_id, e>> : e \in {x \in AudioSuffixes :
        /\ Len(filename) >= Len(x)
        /\ lower(SubSeq(filename, Len(filename) - Len(x) + 1, Len(filename))) = x}}

\* what C13 says of a successful upload, but for the stored path
UploadStored ==
    LET file_id == DictGet(Data(response), "file_id")[2]
    IN /\ \E name \in StoredUploadNames(file_id, request.filename) :
             /\ name \in DOMAIN uploads
             /\ uploads[name] = request.content
       /\ file_id \in DOMAIN processing_status
       /\ LET record == processing_status[file_id]
          IN /\ DictHas(record, "filename")
             /\ DictGet(record, "filename") = Str(request.filename)
             /\ DictHas(record, "file_size")
             /\ DictGet(record, "file_size") = Num(Len(request.content))
             /\ DictHas(record, "upload_timestamp")
             /\ DictHas(record, "status")
             /\ DictGet(record, "status") = Str("uploaded")

\* C13 as claimed: after a successful upload the file is stored under the
\* file_id with the uploaded bytes and the record holds the filename, the
\* size, the stored path, the timestamp and the status "uploaded".
C13_RecordHoldsPath ==
    (Answered("upload-audio") /\ IsSuccess(response))
        => /\ UploadStored
           /\ \E k \in {"path", "file_path", "stored_path"} :
                 DictHas(processing_status[DictGet(Data(response), "file_id")[2]], k)

\* C13 as amended: the same, the record holding exactly the four fields
\* status, filename, file_size and upload_timestamp (no stored path).
C13_UploadStoresFileAndRecord ==
    (Answered("upload-audio") /\ IsSuccess(response))
        => /\ response.status_code = 200
           /\ UploadStored
           /\ DictKeys(processing_status[DictGet(Data(response), "file_id")[2]])
                 = <<"status", "filename", "file_size", "upload_timestamp">>

C13_Witness ==
    /\ Answered("upload-audio")
    /\ IsSuccess(response)
    /\ request.content = <<82, 73>>
    /\ <<DictGet(Data(response), "file_id")[2], <<".","w","a","v">> >> \in DOMAIN uploads

\* C14: a save-notes request naming an existing transcript T and an existing
\* summary S is answered with success and stores a note embedding T and S,
\* whatever transcript S was made from.
C14_NoLineageCheck ==
    [][ (/\ Answers("save-notes")
         /\ exists(transcripts, JsonName(request'.transcript_id))
         /\ exists(summaries, JsonName(request'.summary_id)))
            => /\ IsSuccess(response')
               /\ LET name == JsonName(DictGet(Data(response'), "note_id")[2])
                  IN /\ name \in DOMAIN notes'
                     /\ \E stored \in {json_load(notes'[name])} :
                           /\ \E transcript \in {DictGet(stored, "transcript")} :
                                 DictGet(transcript, "transcript_id")
                                    = Str(request'.transcript_id)
                           /\ \E summary \in {DictGet(stored, "summary")} :
                                 DictGet(summary, "summary_id")
                                    = Str(request'.summary_id) ]_vars

\* a note was stored whose summary was made from another transcript
C14_Witness ==
    /\ Answered("save-notes")
    /\ IsSuccess(response)
    /\ \E stored \in {json_load(notes[JsonName(DictGet(Data(response), "note_id")[2])])} :
          \E summary \in {DictGet(stored, "summary")} :
             DictGet(summary, "transcript_id") # DictGet(stored, "transcript_id")

\* C15: GET /notes/{note_id} of a missing note and GET /status/{file_id} of
\* an unknown file are answered with 404, and GET /notes/{note_id}, GET /notes
\* and GET /status/{file_id} change neither processing_status nor any file.
C15_ReadsAreReadOnly ==
    [][ /\ (Answers("get-notes") /\ ~exists(notes, JsonName(request'.note_id)))
              => response'.status_code = 404 /\ IsFailure(response')
        /\ (Answers("status") /\ request'.file_id \notin DOMAIN processing_status)
              => response'.status_code = 404 /\ IsFailure(response')
        /\ (Answers("get-notes") \/ Answers("list-notes") \/ Answers("status"))
              => /\ processing_status' = processing_status
                 /\ uploads' = uploads
                 /\ transcripts' = transcripts
                 /\ summaries' = summaries
                 /\ notes' = notes ]_vars

C15_Witness ==
    /\ Answered("get-notes")
    /\ response.status_code = 404
    /\ DOMAIN notes # {}
    /\ DOMAIN processing_status # {}

\* the annotation is a non-empty string
NonEmptyNotes(user_notes) == user_notes # None /\ user_notes # Str("")

\* C17: after a successful save-notes, the response reports has_user_notes
\* true exactly when the supplied user_notes is a non-empty string and the
\* note stores that user_notes; after GET /notes, every entry reports
\* has_user_notes true exactly when the stored user_notes of its note is a
\* non-empty string.
C17_HasUserNotesAgree ==
    /\ (Answered("save-notes") /\ IsSuccess(response))
          => /\ DictGet(Data(response), "has_user_notes")
                  = Bool(NonEmptyNotes(request.user_notes))
             /\ \E stored \in {json_load(notes[JsonName(DictGet(Data(response), "note_id")[2])])} :
                   DictGet(stored, "user_notes") = request.user_notes
    /\ Answered("list-notes")
          => LET entries == DictGet(Data(response), "notes")[2]
             IN \A i \in 1..Len(entries) :
                   \E stored \in {json_load(notes[JsonName(DictGet(entries[i], "note_id")[2])])} :
                      DictGet(entries[i], "has_user_notes")
                         = Bool(NonEmptyNotes(DictGet(stored, "user_notes")))

\* two notes listed, one with and one without an annotation
C17_Witness ==
    /\ Answered("list-notes")
    /\ LET entries == DictGet(Data(response), "notes")[2]
       IN /\ Len(entries) = 2
          /\ DictGet(entries[1], "has_user_notes") = Bool(TRUE)
          /\ DictGet(entries[2], "has_user_notes") = Bool(FALSE)

\* the session field holds an identifier
IsSet(field) == field # None

\* C18: whenever the session's transcript_id is set it names a transcript
\* whose audio_file_id is the session's file_id, and whenever summary_id is
\* set it names a summary whose transcript_id is the session's transcript_id.
C18_SessionLineage ==
    /\ IsSet(session.transcript_id)
          => /\ exists(transcripts, JsonName(session.transcript_id[2]))
             /\ \E transcript \in {json_load(transcripts[JsonName(session.transcript_id[2])])} :
                   DictGet(transcript, "audio_file_id") = session.file_id
    /\ IsSet(session.summary_id)
          => /\ exists(summaries, JsonName(session.summary_id[2]))
             /\ \E summary \in {json_load(summaries[JsonName(session.summary_id[2])])} :
                   DictGet(summary, "transcript_id") = session.transcript_id

\* position of a stage in the order upload, transcribe, summarize, save,
\* complete
StageRank(stage) ==
    CASE stage = "upload" -> 1
      [] stage = "transcribe" -> 2
      [] stage = "summarize" -> 3
      [] stage = "save" -> 4
      [] stage = "complete" -> 5
      [] OTHER -> 0

\* note_id set implies summary_id set implies transcript_id set implies
\* file_id set, and the stage is one of the five
SessionChain(sess) ==
    /\ IsSet(sess.note_id) => IsSet(sess.summary_id)
    /\ IsSet(sess.summary_id) => IsSet(sess.transcript_id)
    /\ IsSet(sess.transcript_id) => IsSet(sess.file_id)
    /\ StageRank(sess.processing_stage) > 0

\* the call of the step was not answered with success
CallFailed == result' = None \/ ~truthy(DictGetDefault(result', "success", None))

\* C19 as claimed: the chain note_id, summary_id, transcript_id, file_id
\* holds, the stage is one of the five and only moves forward, and a failed
\* backend response leaves every session field unchanged.
C19_StageOnlyForward ==
    [][ /\ SessionChain(session')
        /\ StageRank(session'.processing_stage) >= StageRank(session.processing_stage)
        /\ CallFailed => session' = session ]_vars

\* C19 as amended: the chain holds, the stage is one of the five, a failed
\* backend response leaves every session field unchanged, and a successful
\* response sets the stage to the one that follows the button pressed
\* (also when that is an earlier stage than the session was in).
C19_StageFollowsButton ==
    [][ /\ SessionChain(session')
        /\ CallFailed => session' = session
        /\ (Answers("upload-audio") /\ IsSuccess(response'))
              => session'.processing_stage = "transcribe"
        /\ (Answers("transcribe") /\ IsSuccess(response'))
              => session'.processing_stage = "summarize"
        /\ (Answers("summarize") /\ IsSuccess(response'))
              => session'.processing_stage = "save"
        /\ (Answers("save-notes") /\ IsSuccess(response'))
              => session'.processing_stage = "complete"
        /\ (session'.processing_stage # session.processing_stage)
              => (~CallFailed /\ request'.endpoint \in
                    {"upload-audio", "transcribe", "summarize", "save-notes"}) ]_vars

\* a second file was uploaded after a transcription, and a later call failed
C19_Witness ==
    /\ IsSet(session.transcript_id)
    /\ session.processing_stage = "transcribe"
    /\ result = requests_failed

\* the timestamp of the transcript of the identifier
TranscriptTimestamp(transcript_id) ==
    DictGet(json_load(transcripts[JsonName(transcript_id)]), "timestamp")[2]
\* the transcripts made of the file
TranscriptsOf(file_id) ==
    {id \in StoredIds(transcripts) :
        DictGet(json_load(transcripts[JsonName(id)]), "audio_file_id") = Str(file_id)}

\* C12: no two requests that run at the same time have both written the
\* same processing_status entry or the same stored file, and when no request
\* is running the state is one a sequential order of the requests yields: the
\* transcript a record names is the one made last of its file.
C12_NoSharedMutation ==
    /\ \A t1, t2 \in Threads :
          (t1 # t2 /\ InFlight(t1) /\ InFlight(t2))
             => threads[t1].wrote \cap threads[t2].wrote = {}
    /\ (\A t \in Threads : ~InFlight(t))
          => \A f \in DOMAIN processing_status :
                DictHas(processing_status[f], "transcript_id")
                   => \A id \in TranscriptsOf(f) :
                         TranscriptTimestamp(id)
                            <= TranscriptTimestamp(DictGet(processing_status[f],
                                                           "transcript_id")[2])

\* C16: a status response whose record says "transcribed" carries a
\* transcript_id naming a stored transcript of that file; the status of a
\* record is "uploaded" or "transcribed" and never goes back to "uploaded".
C16_TranscribedNamesTranscript ==
    [][ /\ (/\ Answers("status")
             /\ IsSuccess(response')
             /\ DictGet(Data(response'), "status") = Str("transcribed"))
              => /\ DictHas(Data(response'), "transcript_id")
                 /\ DictGet(Data(response'), "transcript_id")[2]
                       \in TranscriptsOf(request'.file_id)
        /\ \A f \in DOMAIN processing_status' :
              StatusOf(processing_status'[f]) \in {Str("uploaded"), Str("transcribed")}
        /\ \A f \in DOMAIN processing_status \cap DOMAIN processing_status' :
              StatusOf(processing_status[f]) = Str("transcribed")
                 => StatusOf(processing_status'[f]) = Str("transcribed") ]_vars

====
